---- MODULE Spec2Model ----
(***************************************************************************)
(* Plugin context shim of the IBM Cloud CLI SDK (plugin/plugin_context.go): *)
(* version-gated endpoint resolution, environment overrides and the two    *)
(* token-refresh sequences (IAM and UAA) over the shared persisted         *)
(* configuration.                                                          *)
(*                                                                         *)
(* Version strings are sequences of one-character strings, so that         *)
(* strings.Split and strconv.Atoi are modelled by what they do.  All other *)
(* strings (endpoints, tokens, paths, settings) are TLA+ strings.          *)
(***************************************************************************)
EXTENDS Integers, Sequences, FiniteSets, TLC

VARIABLES
    coreConfig,   \* the persisted platform-level configuration (core_config.ReadWriter)
    cfConfig,     \* the nested CF-scoped configuration (core_config.CFConfig)
    env,          \* the process environment, per variable: [set, val]
    installPath,  \* the install path the host handed to createPluginContext
    ctx,          \* the pluginContext's own fields: pluginPath, pluginConfig
    serial,       \* TRUE when the embedding application excludes concurrent refresh calls
    pc,           \* per thread: the position inside a refresh call
    local,        \* per thread: the locals of the running call
    ret,          \* the last return of a refresh call: thread, op, token, err
    calls,        \* refresh calls begun so far
    requests,     \* token-exchange requests sent to the collaborator so far
    exchanges,    \* token exchanges the collaborator answered with tokens so far
    returns,      \* refresh calls returned so far
    obs,          \* the last read and the value it returned, until the next write
                  \* to the environment or by the host to the configuration
    v1, v2,       \* the arguments of compareVersion
    cmp           \* whether compareVersion(v1, v2) was called, and its result

vars == <<coreConfig, cfConfig, env, installPath, ctx, serial, pc, local, ret,
          calls, requests, exchanges, returns, obs, v1, v2, cmp>>

-----------------------------------------------------------------------------
(* Bounds *)

\* the most dot-separated segments of a generated version string
MaxSegs == 4

\* the most refresh calls begun in one behaviour
MaxCalls == 2

\* the largest major, minor or build number of a declared SDK version
MaxVersionPart == 2

-----------------------------------------------------------------------------
(* strings.Split, strconv.Atoi and compareVersion *)

Digits == <<"0", "1", "2", "3", "4", "5", "6", "7", "8", "9">>

IsDigit(c) == \E d \in 1..10 : Digits[d] = c

DigitVal(c) == (CHOOSE d \in 1..10 : Digits[d] = c) - 1

\* the index of the first "." of s, or 0
DotIndex(s) ==
    IF \E i \in 1..Len(s) : s[i] = "."
    THEN CHOOSE i \in 1..Len(s) : s[i] = "." /\ \A j \in 1..(i - 1) : s[j] # "."
    ELSE 0

RECURSIVE Split(_)
\* strings.Split(s, "."): the substrings between the dots; <<"">> for ""
Split(s) ==
    IF DotIndex(s) = 0 THEN <<s>>
    ELSE <<SubSeq(s, 1, DotIndex(s) - 1)>> \o Split(SubSeq(s, DotIndex(s) + 1, Len(s)))

RECURSIVE DecimalValue(_)
DecimalValue(s) ==
    IF Len(s) = 0 THEN 0
    ELSE 10 * DecimalValue(SubSeq(s, 1, Len(s) - 1)) + DigitVal(s[Len(s)])

\* strconv.Atoi with its error dropped (p, _ = strconv.Atoi(x)): an optional
\* sign and at least one decimal digit give the number, anything else gives 0
Atoi(s) ==
    LET signed == Len(s) > 0 /\ s[1] \in {"+", "-"}
        body   == IF signed THEN SubSeq(s, 2, Len(s)) ELSE s
    IN  IF Len(body) = 0 \/ \E i \in 1..Len(body) : ~IsDigit(body[i]) THEN 0
        ELSE IF signed /\ s[1] = "-" THEN 0 - DecimalValue(body)
        ELSE DecimalValue(body)

Max(a, b) == IF a > b THEN a ELSE b

RECURSIVE compareFrom(_, _, _, _)
\* the loop of compareVersion from index i (1-based) up to n
compareFrom(s1, s2, i, n) ==
    IF i > n THEN 0
    ELSE LET p1 == IF Len(s1) >= i THEN Atoi(s1[i]) ELSE 0
             p2 == IF Len(s2) >= i THEN Atoi(s2[i]) ELSE 0
         IN  IF p1 > p2 THEN 1
             ELSE IF p1 < p2 THEN -1
             ELSE compareFrom(s1, s2, i + 1, n)

\* a wrong comparator: compares only the segments both versions have
compareVersionNoPad(a, b) ==
    LET s1 == Split(a)
        s2 == Split(b)
    IN  compareFrom(s1, s2, 1, IF Len(s1) < Len(s2) THEN Len(s1) ELSE Len(s2))

compareVersion(a, b) ==
    LET s1 == Split(a)
        s2 == Split(b)
    IN  compareFrom(s1, s2, 1, Max(Len(s1), Len(s2)))

-----------------------------------------------------------------------------
(* Generated version strings *)

\* the segments version strings are joined from: two digits and a
\* non-numeric segment
Segs == {<<"0">>, <<"1">>, <<"x">>}

RECURSIVE Join(_)
\* the segments of ss joined with "."
Join(ss) ==
    IF Len(ss) = 1 THEN ss[1]
    ELSE ss[1] \o <<".">> \o Join(Tail(ss))

\* further version strings: the examples of the comparator's contract, several
\* digits, a leading zero, signs, a digit followed by a letter, empty segments
Examples ==
    { <<"1", ".", "0">>, <<"0", ".", "9", ".", "9">>, <<"9">>, <<"1", "0">>,
      <<"0", "1">>, <<"1", "x">>, <<"-", "1">>, <<"+", "1">>, <<>>,
      <<"1", ".", ".", "1">>, <<"0", ".", "1", "0">>, <<"0", ".", "9">> }

Versions ==
    UNION {{Join(ss) : ss \in [1..n -> Segs]} : n \in 1..MaxSegs} \cup Examples

-----------------------------------------------------------------------------
(* VersionType.String: "%d.%d.%d" *)

RECURSIVE Itoa(_)
\* the decimal digits of a non-negative integer (the %d verb)
Itoa(n) ==
    IF n < 10 THEN <<Digits[n + 1]>>
    ELSE Itoa(n \div 10) \o <<Digits[(n % 10) + 1]>>

VersionString(v) ==
    Itoa(v.Major) \o <<".">> \o Itoa(v.Minor) \o <<".">> \o Itoa(v.Build)

-----------------------------------------------------------------------------
(* The environment and the environment override resolver *)

ENV_BLUEMIX_TRACE == "BLUEMIX_TRACE"
ENV_BLUEMIX_COLOR == "BLUEMIX_COLOR"
ENV_IAM_ENDPOINT  == "IAM_ENDPOINT"

EnvKeys == {ENV_BLUEMIX_TRACE, ENV_BLUEMIX_COLOR, ENV_IAM_ENDPOINT}

Unset == [set |-> FALSE, val |-> ""]

\* os.Getenv: the value of the variable, "" when it is not set
Getenv(key) == IF env[key].set THEN env[key].val ELSE ""

\* a wrong resolver: the configuration wins whenever it is non-empty
getFromConfigOrEnv(envKey, config) ==
    IF config # "" THEN config ELSE Getenv(envKey)

getFromEnvOrConfig(envKey, config) ==
    IF Getenv(envKey) # "" THEN Getenv(envKey) ELSE config

-----------------------------------------------------------------------------
(* The plugin context: construction and reads *)

\* filepath.Join(dir, name) for a clean dir and a plain file name
PathJoin(dir, name) == dir \o "/" \o name

createPluginContext(pluginPath) ==
    [pluginPath |-> pluginPath, pluginConfig |-> PathJoin(pluginPath, "config.json")]

SDKVersion == coreConfig.sdkVersion

MinPlatformSDK == <<"0", ".", "1", ".", "1">>

\* a wrong gate: SDK 0.1.1 itself still gets the CF-scoped endpoint
APIEndpointGateOffByOne ==
    IF compareVersion(SDKVersion, MinPlatformSDK) <= 0
    THEN cfConfig.apiEndpoint
    ELSE coreConfig.apiEndpoint

APIEndpoint ==
    IF compareVersion(SDKVersion, MinPlatformSDK) < 0
    THEN cfConfig.apiEndpoint
    ELSE coreConfig.apiEndpoint

\* a wrong HasAPIEndpoint: reads the platform-level field, not the gated one
HasAPIEndpointUngated == coreConfig.apiEndpoint # ""

HasAPIEndpoint == APIEndpoint # ""

\* a wrong PluginDirectory: the directory of the plugin configuration file
PluginDirectoryOfConfig == ctx.pluginConfig

PluginDirectory == ctx.pluginPath

PluginConfig == ctx.pluginConfig

Trace == getFromEnvOrConfig(ENV_BLUEMIX_TRACE, coreConfig.trace)

ColorEnabled == getFromEnvOrConfig(ENV_BLUEMIX_COLOR, coreConfig.colorEnabled)

\* the CF-scoped context CF() returns: the embedded core_config.CFConfig
CFAPIEndpoint == cfConfig.apiEndpoint

CFHasAPIEndpoint == cfConfig.apiEndpoint # ""

HasTargetedCF == CFHasAPIEndpoint

-----------------------------------------------------------------------------
(* Token refresh *)

Threads == {"t1", "t2"}

\* the errors the authentication collaborator answers with
AuthErrors == {"invalid_grant", "connection refused"}

ErrNoCFEndpoint == "CloudFoundry API endpoint is not set"
ErrNoIAMEndpoint == "IAM endpoint is not set"

\* the token strings of the k-th answered exchange of a domain; 0: the tokens
\* stored before any refresh
NewToken(domain, part, k) == domain \o "-" \o part \o "-" \o ToString(k)

StoredTokens ==
    [iamToken        |-> coreConfig.iamToken,
     iamRefreshToken |-> coreConfig.iamRefreshToken,
     uaaToken        |-> cfConfig.uaaToken,
     uaaRefreshToken |-> cfConfig.uaaRefreshToken]

NoRequest == [url |-> "", refreshToken |-> ""]
NoTokens == [iamToken |-> "", iamRefreshToken |-> "", uaaToken |-> "", uaaRefreshToken |-> ""]
\* the locals of a call: the request it sent, the collaborator's answer
\* (token, refreshToken, err), and the stored tokens the call found
NoLocal == [req |-> NoRequest, token |-> "", refreshToken |-> "", err |-> "",
            before |-> NoTokens]
NoReturn == [thread |-> "", op |-> "", token |-> "", err |-> ""]
NoObs == [op |-> "", val |-> ""]

cmpVars == <<v1, v2, cmp>>
ctxVars == <<installPath, ctx, serial>>
threadVars == <<pc, local, ret, calls, requests, exchanges, returns>>

\* a refresh call may begin: the call bound, and no other call running when
\* the embedding application serialises refresh calls
MayBegin(t) ==
    /\ pc[t] = "idle"
    /\ calls < MaxCalls
    /\ serial => \A u \in Threads : pc[u] = "idle"

\* t's call returns (token, err) to its caller; its locals are gone
Return(t, op, token, err) ==
    /\ ret' = [thread |-> t, op |-> op, token |-> token, err |-> err]
    /\ returns' = returns + 1
    /\ pc' = [pc EXCEPT ![t] = "idle"]
    /\ local' = [local EXCEPT ![t] = NoLocal]

\* t's call sends a token-exchange request and blocks on the answer
Exchange(t, url, refreshToken, waiting) ==
    /\ local' = [local EXCEPT ![t] = [NoLocal EXCEPT !.req = [url |-> url, refreshToken |-> refreshToken],
                                                     !.before = StoredTokens]]
    /\ requests' = requests + 1
    /\ pc' = [pc EXCEPT ![t] = waiting]

\* the collaborator answers t's request: an error, or a new pair of tokens
Answer(t, domain, answered) ==
    /\ \/ \E e \in AuthErrors :
            /\ local' = [local EXCEPT ![t].err = e]
            /\ UNCHANGED exchanges
       \/ /\ local' = [local EXCEPT ![t].token = NewToken(domain, "access", exchanges + 1),
                                    ![t].refreshToken = NewToken(domain, "refresh", exchanges + 1)]
          /\ exchanges' = exchanges + 1
    /\ pc' = [pc EXCEPT ![t] = answered]

\* a wrong resolution: the persisted endpoint wins over IAM_ENDPOINT
resolveIAMEndpointConfigFirst ==
    IF coreConfig.iamEndpoint # "" THEN coreConfig.iamEndpoint ELSE Getenv(ENV_IAM_ENDPOINT)

\* endpoint := os.Getenv("IAM_ENDPOINT"); if endpoint == "" { endpoint = c.IAMEndpoint() }
resolveIAMEndpoint ==
    IF Getenv(ENV_IAM_ENDPOINT) = "" THEN coreConfig.iamEndpoint ELSE Getenv(ENV_IAM_ENDPOINT)

IAMTokenEndpoint(endpoint) == endpoint \o "/identity/token"

\* RefreshIAMToken up to the sending of the token-exchange request
RefreshIAMToken_Call(t) ==
    /\ MayBegin(t)
    /\ calls' = calls + 1
    /\ IF resolveIAMEndpoint = ""
       THEN /\ Return(t, "RefreshIAMToken", "", ErrNoIAMEndpoint)
            /\ UNCHANGED requests
       ELSE /\ Exchange(t, IAMTokenEndpoint(resolveIAMEndpoint), coreConfig.iamRefreshToken,
                        "iam_wait")
            /\ UNCHANGED <<ret, returns>>
    /\ UNCHANGED <<coreConfig, cfConfig, env, exchanges, obs>>
    /\ UNCHANGED <<ctxVars, cmpVars>>

\* iamToken, err := auth.RefreshToken(c.IAMRefreshToken()): the answer arrives
RefreshIAMToken_Receive(t) ==
    /\ pc[t] = "iam_wait"
    /\ Answer(t, "iam", "iam_answered")
    /\ UNCHANGED <<coreConfig, cfConfig, env, ret, calls, requests, returns, obs>>
    /\ UNCHANGED <<ctxVars, cmpVars>>

\* a wrong RefreshIAMToken: stores the answer's token before it looks at err
RefreshIAMToken_SetTokenBeforeErrCheck(t) ==
    /\ pc[t] = "iam_answered"
    /\ coreConfig' = [coreConfig EXCEPT !.iamToken = local[t].token]
    /\ IF local[t].err # ""
       THEN Return(t, "RefreshIAMToken", "", local[t].err)
       ELSE /\ pc' = [pc EXCEPT ![t] = "iam_setRefreshToken"]
            /\ UNCHANGED <<local, ret, returns>>
    /\ UNCHANGED <<cfConfig, env, calls, requests, exchanges, obs>>
    /\ UNCHANGED <<ctxVars, cmpVars>>

\* if err != nil { return "", err }; c.SetIAMToken(iamToken.Token())
RefreshIAMToken_SetToken(t) ==
    /\ pc[t] = "iam_answered"
    /\ IF local[t].err # ""
       THEN /\ Return(t, "RefreshIAMToken", "", local[t].err)
            /\ UNCHANGED coreConfig
       ELSE /\ coreConfig' = [coreConfig EXCEPT !.iamToken = local[t].token]
            /\ pc' = [pc EXCEPT ![t] = "iam_setRefreshToken"]
            /\ UNCHANGED <<local, ret, returns>>
    /\ UNCHANGED <<cfConfig, env, calls, requests, exchanges, obs>>
    /\ UNCHANGED <<ctxVars, cmpVars>>

\* a wrong RefreshIAMToken: returns the new refresh token, not the access token
RefreshIAMToken_ReturnsRefreshToken(t) ==
    /\ pc[t] = "iam_setRefreshToken"
    /\ coreConfig' = [coreConfig EXCEPT !.iamRefreshToken = local[t].refreshToken]
    /\ Return(t, "RefreshIAMToken", local[t].refreshToken, "")
    /\ UNCHANGED <<cfConfig, env, calls, requests, exchanges, obs>>
    /\ UNCHANGED <<ctxVars, cmpVars>>

\* c.SetIAMRefreshToken(iamToken.RefreshToken); return iamToken.Token(), nil
RefreshIAMToken_SetRefreshToken(t) ==
    /\ pc[t] = "iam_setRefreshToken"
    /\ coreConfig' = [coreConfig EXCEPT !.iamRefreshToken = local[t].refreshToken]
    /\ Return(t, "RefreshIAMToken", local[t].token, "")
    /\ UNCHANGED <<cfConfig, env, calls, requests, exchanges, obs>>
    /\ UNCHANGED <<ctxVars, cmpVars>>

\* RefreshUAAToken up to the sending of the token-exchange request
RefreshUAAToken_Call(t) ==
    /\ MayBegin(t)
    /\ calls' = calls + 1
    /\ IF ~CFHasAPIEndpoint
       THEN /\ Return(t, "RefreshUAAToken", "", ErrNoCFEndpoint)
            /\ UNCHANGED requests
       ELSE /\ Exchange(t, cfConfig.authenticationEndpoint, cfConfig.uaaRefreshToken,
                        "uaa_wait")
            /\ UNCHANGED <<ret, returns>>
    /\ UNCHANGED <<coreConfig, cfConfig, env, exchanges, obs>>
    /\ UNCHANGED <<ctxVars, cmpVars>>

\* token, err := auth.RefreshToken(c.UAARefreshToken()): the answer arrives
RefreshUAAToken_Receive(t) ==
    /\ pc[t] = "uaa_wait"
    /\ Answer(t, "uaa", "uaa_answered")
    /\ UNCHANGED <<coreConfig, cfConfig, env, ret, calls, requests, returns, obs>>
    /\ UNCHANGED <<ctxVars, cmpVars>>

\* a wrong RefreshUAAToken: sends the request again when the exchange failed
RefreshUAAToken_SetTokenOrRetry(t) ==
    /\ pc[t] = "uaa_answered"
    /\ IF local[t].err # ""
       THEN /\ local' = [local EXCEPT ![t].err = ""]
            /\ requests' = requests + 1
            /\ pc' = [pc EXCEPT ![t] = "uaa_wait"]
            /\ UNCHANGED cfConfig
       ELSE /\ cfConfig' = [cfConfig EXCEPT !.uaaToken = local[t].token]
            /\ pc' = [pc EXCEPT ![t] = "uaa_setRefreshToken"]
            /\ UNCHANGED <<local, requests>>
    /\ UNCHANGED <<coreConfig, env, ret, returns, calls, exchanges, obs>>
    /\ UNCHANGED <<ctxVars, cmpVars>>

\* if err != nil { return "", err }; c.SetUAAToken(token.Token())
RefreshUAAToken_SetToken(t) ==
    /\ pc[t] = "uaa_answered"
    /\ IF local[t].err # ""
       THEN /\ Return(t, "RefreshUAAToken", "", local[t].err)
            /\ UNCHANGED cfConfig
       ELSE /\ cfConfig' = [cfConfig EXCEPT !.uaaToken = local[t].token]
            /\ pc' = [pc EXCEPT ![t] = "uaa_setRefreshToken"]
            /\ UNCHANGED <<local, ret, returns>>
    /\ UNCHANGED <<coreConfig, env, calls, requests, exchanges, obs>>
    /\ UNCHANGED <<ctxVars, cmpVars>>

\* a wrong RefreshUAAToken: does not store the new refresh token
RefreshUAAToken_KeepsRefreshToken(t) ==
    /\ pc[t] = "uaa_setRefreshToken"
    /\ Return(t, "RefreshUAAToken", local[t].token, "")
    /\ UNCHANGED <<coreConfig, cfConfig, env, calls, requests, exchanges, obs>>
    /\ UNCHANGED <<ctxVars, cmpVars>>

\* c.SetUAARefreshToken(token.RefreshToken); return token.Token(), nil
RefreshUAAToken_SetRefreshToken(t) ==
    /\ pc[t] = "uaa_setRefreshToken"
    /\ cfConfig' = [cfConfig EXCEPT !.uaaRefreshToken = local[t].refreshToken]
    /\ Return(t, "RefreshUAAToken", local[t].token, "")
    /\ UNCHANGED <<coreConfig, env, calls, requests, exchanges, obs>>
    /\ UNCHANGED <<ctxVars, cmpVars>>

-----------------------------------------------------------------------------
(* The surroundings: the environment, the host's writes, reads of the context *)

IAMEndpoints == {"", "https://iam.cfg"}
IAMEndpointOverrides == {"", "https://iam.env"}
CFAPIEndpoints == {"", "https://api.cf"}
APIEndpoints == {"", "https://cloud"}
Settings == {"", "cfg"}
Overrides == {"", "env"}
Paths == {"/plugins/a", "/plugins/b"}

\* os.Setenv(key, val)
Setenv(key, val) ==
    /\ env' = [env EXCEPT ![key] = [set |-> TRUE, val |-> val]]
    /\ obs' = NoObs
    /\ UNCHANGED <<coreConfig, cfConfig>>
    /\ UNCHANGED <<ctxVars, threadVars, cmpVars>>

\* os.Unsetenv(key)
Unsetenv(key) ==
    /\ env[key].set
    /\ env' = [env EXCEPT ![key] = Unset]
    /\ obs' = NoObs
    /\ UNCHANGED <<coreConfig, cfConfig>>
    /\ UNCHANGED <<ctxVars, threadVars, cmpVars>>

\* another holder of the configuration writes a platform-level field
HostSetsCore(f, val) ==
    /\ coreConfig[f] # val
    /\ coreConfig' = [coreConfig EXCEPT ![f] = val]
    /\ obs' = NoObs
    /\ UNCHANGED <<cfConfig, env>>
    /\ UNCHANGED <<ctxVars, threadVars, cmpVars>>

\* another holder of the configuration writes a CF-scoped field
HostSetsCF(f, val) ==
    /\ cfConfig[f] # val
    /\ cfConfig' = [cfConfig EXCEPT ![f] = val]
    /\ obs' = NoObs
    /\ UNCHANGED <<coreConfig, env>>
    /\ UNCHANGED <<ctxVars, threadVars, cmpVars>>

\* the plugin calls a read operation of the context; obs keeps what it returned
Read(op, val) ==
    /\ obs' = [op |-> op, val |-> val]
    /\ UNCHANGED <<coreConfig, cfConfig, env>>
    /\ UNCHANGED <<ctxVars, threadVars, cmpVars>>

-----------------------------------------------------------------------------
(* Specifications *)

SDKVersions ==
    {VersionString(v) : v \in [Major : 0..MaxVersionPart, Minor : 0..MaxVersionPart,
                               Build : 0..MaxVersionPart]}

NoComparison == [called |-> FALSE, result |-> 0]

\* the state after createPluginContext(path, coreConfig): a logged-in session
\* with both endpoints targeted, no call made yet
InitContext(paths) ==
    /\ coreConfig = [apiEndpoint     |-> "https://cloud",
                     iamEndpoint     |-> "https://iam.cfg",
                     iamToken        |-> NewToken("iam", "access", 0),
                     iamRefreshToken |-> NewToken("iam", "refresh", 0),
                     sdkVersion      |-> VersionString([Major |-> 0, Minor |-> 1, Build |-> 1]),
                     trace           |-> "cfg",
                     colorEnabled    |-> "cfg"]
    /\ cfConfig = [apiEndpoint            |-> "https://api.cf",
                   authenticationEndpoint |-> "https://uaa.cf",
                   uaaToken               |-> NewToken("uaa", "access", 0),
                   uaaRefreshToken        |-> NewToken("uaa", "refresh", 0)]
    /\ env = [k \in EnvKeys |-> Unset]
    /\ installPath \in paths
    /\ ctx = createPluginContext(installPath)
    /\ pc = [t \in Threads |-> "idle"]
    /\ local = [t \in Threads |-> NoLocal]
    /\ ret = NoReturn
    /\ calls = 0
    /\ requests = 0
    /\ exchanges = 0
    /\ returns = 0
    /\ obs = NoObs

(* Spec: the two token-refresh sequences, run by two threads over the shared *)
(* configuration, with the environment and the endpoints changing.          *)
Init ==
    /\ InitContext(Paths)
    /\ serial \in BOOLEAN
    /\ v1 = <<>> /\ v2 = <<>> /\ cmp = NoComparison

Next ==
    \/ \E t \in Threads : RefreshIAMToken_Call(t)
    \/ \E t \in Threads : RefreshIAMToken_Receive(t)
    \/ \E t \in Threads : RefreshIAMToken_SetToken(t)
    \/ \E t \in Threads : RefreshIAMToken_SetRefreshToken(t)
    \/ \E t \in Threads : RefreshUAAToken_Call(t)
    \/ \E t \in Threads : RefreshUAAToken_Receive(t)
    \/ \E t \in Threads : RefreshUAAToken_SetToken(t)
    \/ \E t \in Threads : RefreshUAAToken_SetRefreshToken(t)
    \/ \E val \in IAMEndpointOverrides : Setenv(ENV_IAM_ENDPOINT, val)
    \/ Unsetenv(ENV_IAM_ENDPOINT)
    \/ \E val \in IAMEndpoints : HostSetsCore("iamEndpoint", val)
    \/ \E val \in CFAPIEndpoints : HostSetsCF("apiEndpoint", val)
    \/ Read("PluginDirectory", PluginDirectory)

Spec == Init /\ [][Next]_vars

(* SpecCtx: the endpoint reads of the context, with the endpoints and the *)
(* declared SDK version changing.                                         *)
InitCtx ==
    /\ InitContext({"/plugins/a"})
    /\ serial = TRUE
    /\ v1 = <<>> /\ v2 = <<>> /\ cmp = NoComparison

NextCtx ==
    \/ \E val \in APIEndpoints : HostSetsCore("apiEndpoint", val)
    \/ \E val \in CFAPIEndpoints : HostSetsCF("apiEndpoint", val)
    \/ \E val \in SDKVersions : HostSetsCore("sdkVersion", val)
    \/ Read("APIEndpoint", APIEndpoint)
    \/ Read("HasAPIEndpoint", HasAPIEndpoint)
    \/ Read("CF.APIEndpoint", CFAPIEndpoint)
    \/ Read("CF.HasAPIEndpoint", CFHasAPIEndpoint)
    \/ Read("HasTargetedCF", HasTargetedCF)

SpecCtx == InitCtx /\ [][NextCtx]_vars

(* SpecEnv: Trace and ColorEnabled, with the two environment variables and *)
(* the two persisted settings changing.                                    *)
NextEnv ==
    \/ \E val \in Overrides : Setenv(ENV_BLUEMIX_TRACE, val)
    \/ \E val \in Overrides : Setenv(ENV_BLUEMIX_COLOR, val)
    \/ \E key \in {ENV_BLUEMIX_TRACE, ENV_BLUEMIX_COLOR} : Unsetenv(key)
    \/ \E val \in Settings : HostSetsCore("trace", val)
    \/ \E val \in Settings : HostSetsCore("colorEnabled", val)
    \/ Read("Trace", Trace)
    \/ Read("ColorEnabled", ColorEnabled)

SpecEnv == InitCtx /\ [][NextEnv]_vars

(* SpecCmp: compareVersion applied to every pair of generated version strings. *)
InitCmp ==
    /\ InitContext({"/plugins/a"})
    /\ serial = TRUE
    /\ v1 \in Versions
    /\ v2 \in Versions
    /\ cmp = NoComparison

Compare ==
    /\ ~cmp.called
    /\ cmp' = [called |-> TRUE, result |-> compareVersion(v1, v2)]
    /\ UNCHANGED <<coreConfig, cfConfig, env, obs, v1, v2>>
    /\ UNCHANGED <<ctxVars, threadVars>>

NextCmp == Compare

SpecCmp == InitCmp /\ [][NextCmp]_vars

-----------------------------------------------------------------------------
(* Properties *)

AllIdle == \A t \in Threads : pc[t] = "idle"

\* the IAM base endpoint as the contract states it, read off the environment
\* and the configuration
IAMBase ==
    IF env[ENV_IAM_ENDPOINT].set /\ env[ENV_IAM_ENDPOINT].val # ""
    THEN env[ENV_IAM_ENDPOINT].val
    ELSE coreConfig.iamEndpoint

\* the position of a call in its linear sequence
Rank(p) ==
    CASE p = "idle" -> 0
      [] p \in {"iam_wait", "uaa_wait"} -> 1
      [] p \in {"iam_answered", "uaa_answered"} -> 2
      [] p \in {"iam_setRefreshToken", "uaa_setRefreshToken"} -> 3

\* C1: a refresh call that returns an error (no CF API endpoint, no IAM
\* endpoint, or a failed exchange) leaves the four stored tokens alone: the
\* returning step writes none of them, and when no other call ran meanwhile
\* they are the tokens the call found when it began.
C1_FailedRefreshKeepsTokens ==
    [][(returns' = returns + 1 /\ ret'.err # "") =>
          /\ StoredTokens' = StoredTokens
          /\ serial => StoredTokens' = (IF pc[ret'.thread] = "idle" THEN StoredTokens
                                        ELSE local[ret'.thread].before)]_vars

\* a failed exchange has just returned, after an earlier refresh had replaced
\* the IAM tokens
C1_Witness ==
    /\ serial /\ AllIdle
    /\ returns = 2 /\ exchanges = 1
    /\ ret.err \in AuthErrors
    /\ coreConfig.iamToken = NewToken("iam", "access", 1)
    /\ coreConfig.iamRefreshToken = NewToken("iam", "refresh", 1)

\* C2: a refresh whose exchange succeeded writes the answer's access token
\* and refresh token into the shared configuration and returns the access
\* token; each write is in the configuration as soon as it is made, and when
\* no other call ran meanwhile the configuration holds exactly the two new
\* values as the call returns.
C2_SuccessfulRefreshStoresBoth ==
    [][\A t \in Threads :
          /\ (pc[t] = "iam_answered" /\ pc'[t] = "iam_setRefreshToken")
                => coreConfig'.iamToken = local[t].token
          /\ (pc[t] = "uaa_answered" /\ pc'[t] = "uaa_setRefreshToken")
                => cfConfig'.uaaToken = local[t].token
          /\ (returns' = returns + 1 /\ ret'.thread = t /\ ret'.err = "")
                => /\ local[t].err = ""
                   /\ ret'.token = local[t].token
                   /\ ret'.op = "RefreshIAMToken" =>
                         /\ coreConfig'.iamRefreshToken = local[t].refreshToken
                         /\ serial => coreConfig'.iamToken = local[t].token
                   /\ ret'.op = "RefreshUAAToken" =>
                         /\ cfConfig'.uaaRefreshToken = local[t].refreshToken
                         /\ serial => cfConfig'.uaaToken = local[t].token]_vars

\* an IAM refresh and then a UAA refresh have succeeded; the UAA one has
\* just returned its access token
C2_Witness ==
    /\ serial /\ AllIdle
    /\ ret.op = "RefreshUAAToken" /\ ret.err = ""
    /\ ret.token = NewToken("uaa", "access", 2)
    /\ cfConfig.uaaToken = NewToken("uaa", "access", 2)
    /\ cfConfig.uaaRefreshToken = NewToken("uaa", "refresh", 2)
    /\ coreConfig.iamToken = NewToken("iam", "access", 1)
    /\ coreConfig.iamRefreshToken = NewToken("iam", "refresh", 1)

\* C6: RefreshIAMToken sends its request only when IAM_ENDPOINT (if
\* non-empty) or else the persisted IAM endpoint is non-empty, to that base
\* endpoint followed by "/identity/token", with the refresh token stored at
\* that moment; when both are empty it returns the error at once.
C6_IAMEndpointResolution ==
    [][\A t \in Threads :
          /\ (pc[t] = "idle" /\ pc'[t] = "iam_wait")
                => /\ IAMBase # ""
                   /\ local'[t].req = [url |-> IAMBase \o "/identity/token",
                                       refreshToken |-> coreConfig.iamRefreshToken]
          /\ (pc[t] = "idle" /\ returns' = returns + 1 /\ ret'.thread = t
                /\ ret'.op = "RefreshIAMToken")
                => /\ IAMBase = ""
                   /\ ret'.err = ErrNoIAMEndpoint
                   /\ ret'.token = ""
                   /\ requests' = requests]_vars

\* a request is on its way to the IAM_ENDPOINT override although an IAM
\* endpoint is persisted, carrying the refresh token of an earlier refresh
C6_Witness ==
    \E t \in Threads :
        /\ pc[t] = "iam_wait"
        /\ coreConfig.iamEndpoint = "https://iam.cfg"
        /\ local[t].req.url = "https://iam.env/identity/token"
        /\ local[t].req.refreshToken = NewToken("iam", "refresh", 1)

\* C8: PluginDirectory() is the install path given at construction, in every
\* state and whenever it is read.
C8_PluginDirectoryFixed ==
    /\ PluginDirectory = installPath
    /\ obs.op = "PluginDirectory" => obs.val = installPath

\* PluginDirectory was read after a successful and a failed refresh, with
\* IAM_ENDPOINT set and the persisted IAM endpoint removed
C8_Witness ==
    /\ obs.op = "PluginDirectory" /\ obs.val = "/plugins/b"
    /\ exchanges = 1 /\ returns = 2 /\ ret.err # ""
    /\ env[ENV_IAM_ENDPOINT].set
    /\ coreConfig.iamEndpoint = ""

\* C9: a refresh call sends at most one token-exchange request, as its first
\* step, and none when its precondition fails, which returns the error at
\* once; it then only moves forward (answer, store, store, return), returns
\* an exchange error as the collaborator gave it, and returns either a token
\* or an error.
C9_SingleExchangeNoRetry ==
    [][/\ requests' \in {requests, requests + 1}
       /\ requests' = requests + 1 => calls' = calls + 1
       /\ \A t \in Threads :
             /\ (pc[t] = "idle" /\ pc'[t] # "idle") => requests' = requests + 1
             /\ (pc[t] = "idle" /\ pc'[t] = "uaa_wait") => cfConfig.apiEndpoint # ""
             /\ (pc[t] = "idle" /\ pc'[t] = "iam_wait") => IAMBase # ""
             /\ pc'[t] # pc[t] => (pc'[t] = "idle" \/ Rank(pc'[t]) = Rank(pc[t]) + 1)
             /\ (returns' = returns + 1 /\ ret'.thread = t) =>
                   /\ (ret'.err = "") # (ret'.token = "")
                   /\ pc[t] = "idle" =>
                         /\ requests' = requests
                         /\ ret'.op = "RefreshUAAToken" =>
                               (cfConfig.apiEndpoint = "" /\ ret'.err = ErrNoCFEndpoint)
                         /\ ret'.op = "RefreshIAMToken" =>
                               (IAMBase = "" /\ ret'.err = ErrNoIAMEndpoint)
                   /\ (pc[t] # "idle" /\ ret'.err # "") =>
                         (ret'.err \in AuthErrors /\ ret'.err = local[t].err)
                   /\ (pc[t] # "idle" /\ ret'.err = "") => Rank(pc[t]) = 3]_vars

\* one call has failed its precondition and another has had its one
\* exchange refused
C9_Witness ==
    /\ AllIdle
    /\ calls = 2 /\ returns = 2 /\ requests = 1 /\ exchanges = 0
    /\ ret.err \in AuthErrors

\* the stored access and refresh token of a domain are those of one exchange
FromOneExchange(domain, token, refreshToken) ==
    \E k \in 0..exchanges :
        /\ token = NewToken(domain, "access", k)
        /\ refreshToken = NewToken(domain, "refresh", k)

\* C10: when refresh calls run strictly one after another, between calls the
\* stored pair of each domain comes from a single exchange; a pair mixed
\* from two exchanges is left behind only by calls that overlapped.
C10_SerialCallsKeepPairs ==
    (serial /\ AllIdle) =>
        /\ FromOneExchange("iam", coreConfig.iamToken, coreConfig.iamRefreshToken)
        /\ FromOneExchange("uaa", cfConfig.uaaToken, cfConfig.uaaRefreshToken)

\* two overlapping RefreshIAMToken calls have both succeeded and returned,
\* and the stored access token is of one exchange, the refresh token of the other
C10_Witness ==
    /\ ~serial /\ AllIdle
    /\ returns = 2 /\ exchanges = 2
    /\ \E j, k \in 1..2 :
          /\ j # k
          /\ coreConfig.iamToken = NewToken("iam", "access", j)
          /\ coreConfig.iamRefreshToken = NewToken("iam", "refresh", k)

VersionTriples ==
    [Major : 0..MaxVersionPart, Minor : 0..MaxVersionPart, Build : 0..MaxVersionPart]

\* the lexicographic order of version triples
TripleLess(a, b) ==
    \/ a.Major < b.Major
    \/ a.Major = b.Major /\ a.Minor < b.Minor
    \/ a.Major = b.Major /\ a.Minor = b.Minor /\ a.Build < b.Build

\* the endpoint a plugin of the declared SDK version is to get
GatedEndpoint ==
    LET v == CHOOSE x \in VersionTriples : VersionString(x) = coreConfig.sdkVersion
    IN  IF TripleLess(v, [Major |-> 0, Minor |-> 1, Build |-> 1])
        THEN cfConfig.apiEndpoint
        ELSE coreConfig.apiEndpoint

\* C3: APIEndpoint() is the CF-scoped endpoint when the declared SDK version
\* is below 0.1.1 and the platform-level endpoint from 0.1.1 on, whatever the
\* two endpoints are.
C3_VersionGatedEndpoint ==
    /\ coreConfig.sdkVersion \in SDKVersions
    /\ APIEndpoint = GatedEndpoint
    /\ obs.op = "APIEndpoint" => obs.val = GatedEndpoint
    /\ coreConfig.sdkVersion = <<"0", ".", "1", ".", "0">> => APIEndpoint = cfConfig.apiEndpoint
    /\ coreConfig.sdkVersion = <<"0", ".", "1", ".", "1">> => APIEndpoint = coreConfig.apiEndpoint
    /\ coreConfig.sdkVersion = <<"0", ".", "1", ".", "2">> => APIEndpoint = coreConfig.apiEndpoint

\* a plugin of SDK 0.1.0 read APIEndpoint() and got the empty CF-scoped
\* endpoint although a platform-level endpoint is set
C3_Witness ==
    /\ coreConfig.sdkVersion = <<"0", ".", "1", ".", "0">>
    /\ cfConfig.apiEndpoint = "" /\ coreConfig.apiEndpoint = "https://cloud"
    /\ obs.op = "APIEndpoint" /\ obs.val = ""

\* C4: HasAPIEndpoint() is true exactly when APIEndpoint() of the same
\* context is non-empty, at the plugin level (version-gated) and at the CF
\* level, and HasTargetedCF() is the CF-level HasAPIEndpoint().
C4_HasAPIEndpointIffNonEmpty ==
    /\ HasAPIEndpoint = (APIEndpoint # "")
    /\ HasAPIEndpoint = (GatedEndpoint # "")
    /\ CFHasAPIEndpoint = (CFAPIEndpoint # "")
    /\ HasTargetedCF = CFHasAPIEndpoint
    /\ obs.op = "HasAPIEndpoint" => obs.val = (GatedEndpoint # "")
    /\ obs.op = "CF.HasAPIEndpoint" => obs.val = (cfConfig.apiEndpoint # "")
    /\ obs.op = "HasTargetedCF" => obs.val = (cfConfig.apiEndpoint # "")

\* a plugin of SDK 0.1.0 read HasAPIEndpoint() and got FALSE: no CF endpoint
\* is targeted although a platform-level endpoint is set
C4_Witness ==
    /\ coreConfig.sdkVersion = <<"0", ".", "1", ".", "0">>
    /\ cfConfig.apiEndpoint = "" /\ coreConfig.apiEndpoint = "https://cloud"
    /\ obs.op = "HasAPIEndpoint" /\ obs.val = FALSE

\* what the override contract gives for a variable and a persisted value
Overridden(key, config) ==
    IF ~env[key].set THEN config
    ELSE IF env[key].val = "" THEN config
    ELSE env[key].val

\* C7: getFromEnvOrConfig, and so Trace() and ColorEnabled(), gives the
\* persisted value when the variable is unset or set to "", and the
\* variable's value when it is set to a non-empty string; a call changes
\* neither the environment nor the configuration.
C7_EnvOverride ==
    /\ [](/\ \A key \in EnvKeys : \A config \in Settings :
                getFromEnvOrConfig(key, config) = Overridden(key, config)
          /\ Trace = Overridden(ENV_BLUEMIX_TRACE, coreConfig.trace)
          /\ ColorEnabled = Overridden(ENV_BLUEMIX_COLOR, coreConfig.colorEnabled)
          /\ obs.op = "Trace" => obs.val = Overridden(ENV_BLUEMIX_TRACE, coreConfig.trace)
          /\ obs.op = "ColorEnabled" =>
                obs.val = Overridden(ENV_BLUEMIX_COLOR, coreConfig.colorEnabled))
    /\ [][(obs'.op \in {"Trace", "ColorEnabled"} /\ obs' # obs) =>
            (env' = env /\ coreConfig' = coreConfig /\ cfConfig' = cfConfig)]_vars

\* Trace() was read with BLUEMIX_TRACE set to "env" and a persisted setting
\* of "cfg", and gave "env"
C7_Witness ==
    /\ env[ENV_BLUEMIX_TRACE] = [set |-> TRUE, val |-> "env"]
    /\ coreConfig.trace = "cfg"
    /\ obs.op = "Trace" /\ obs.val = "env"

\* the values of the first n segments of a version string, 0 past its last
SegmentValues(v, n) ==
    LET s == Split(v)
    IN  [i \in 1..n |-> IF i <= Len(s) THEN Atoi(s[i]) ELSE 0]

\* the number of segments of the longer of two version strings
Segments(a, b) == Max(Len(Split(a)), Len(Split(b)))

\* the sign of the difference at the first position where a and b differ, 0
\* if there is none
FirstDifference(a, b) ==
    LET D == {i \in DOMAIN a : a[i] # b[i]}
        k == CHOOSE i \in D : \A j \in D : i <= j
    IN  IF D = {} THEN 0 ELSE IF a[k] < b[k] THEN -1 ELSE 1

\* C5: compareVersion gives -1, 0 or 1: the sign of the difference at the
\* first position where the segment values differ, the shorter version
\* padded with zeros and a non-numeric segment counted as 0; 0 if none
\* differs, so for equal strings and for "0.1.1.0" against "0.1.1";
\* "0.1.0" is below "0.1.1" and "1.0" above "0.9.9".
C5_CompareVersion ==
    cmp.called =>
        /\ cmp.result \in {-1, 0, 1}
        /\ cmp.result = FirstDifference(SegmentValues(v1, Segments(v1, v2)),
                                        SegmentValues(v2, Segments(v1, v2)))
        /\ v1 = v2 => cmp.result = 0
        /\ (v1 = <<"0", ".", "1", ".", "1", ".", "0">> /\ v2 = <<"0", ".", "1", ".", "1">>)
              => cmp.result = 0
        /\ (v1 = <<"0", ".", "1", ".", "0">> /\ v2 = <<"0", ".", "1", ".", "1">>)
              => cmp.result = -1
        /\ (v1 = <<"1", ".", "0">> /\ v2 = <<"0", ".", "9", ".", "9">>) => cmp.result = 1
        /\ (v1 = <<"1", "0">> /\ v2 = <<"9">>) => cmp.result = 1
        /\ (v1 = <<"x">> /\ v2 = <<"0">>) => cmp.result = 0
        /\ (v1 = <<"1", "x">> /\ v2 = <<"1">>) => cmp.result = -1
        /\ (v1 = <<"1", ".", "x">> /\ v2 = <<"1">>) => cmp.result = 0

\* compareVersion("0.1.1.0", "0.1.1") was called and gave 0
C5_Witness ==
    /\ cmp.called
    /\ v1 = <<"0", ".", "1", ".", "1", ".", "0">>
    /\ v2 = <<"0", ".", "1", ".", "1">>
    /\ cmp.result = 0

====
